---- MODULE Spec2Model ----
(***************************************************************************)
(* Verification model of acdtunes/evosim's two Python servers:             *)
(*   Server/server.py  actor-critic Brain registry behind a single-        *)
(*                     threaded newline-delimited JSON socket loop;        *)
(*   Core/server.py    SimpleNet model cache served by one thread per      *)
(*                     connection.                                         *)
(*                                                                         *)
(* Abstractions.  Tensors are not computed: a parameter tensor is a record *)
(* [src, ver], src naming where its values came from (the random           *)
(* initialisation of Brain object oid, or a loaded flat list) and ver      *)
(* counting the in-place updates since; a target tensor that was soft-     *)
(* updated also carries live, the live tensor of its last soft update.     *)
(* A flat weight list is                                                   *)
(* [len, tag]: len elements, contents named by tag.  Python object         *)
(* identity is an allocation number (oid).                                 *)
(***************************************************************************)
EXTENDS Integers, Sequences, FiniteSets, TLC

(***************************************************************************)
(* Hyperparameters, Server/server.py lines 15-22.  STATE_DIM, ACTION_DIM   *)
(* and HIDDEN keep the program's values (only lengths are compared).       *)
(* BATCH_SIZE (64 in the program) and REPLAY_BUFFER_CAPACITY (2000) are    *)
(* scaled down, keeping BATCH_SIZE < REPLAY_BUFFER_CAPACITY, because the   *)
(* buffer contents are explicit.                                           *)
(***************************************************************************)
STATE_DIM == 25
ACTION_DIM == 3
HIDDEN == 128
BATCH_SIZE == 2
REPLAY_BUFFER_CAPACITY == 3
TRAIN_STEPS_PER_ENTRY == 5

\* Transitions the clients may store (Transition namedtuple values).
NumTransitions == 2
Transitions == 1..NumTransitions

(***************************************************************************)
(* ReplayBuffer: deque(maxlen=capacity).                                   *)
(***************************************************************************)
PushEvictNewest(buf, t) ==
    IF Len(buf) >= REPLAY_BUFFER_CAPACITY
    THEN Append(SubSeq(buf, 1, Len(buf) - 1), t)
    ELSE Append(buf, t)

\* deque.append on a full bounded deque discards the item at the left end.
Push(buf, t) ==
    IF Len(buf) >= REPLAY_BUFFER_CAPACITY
    THEN Append(Tail(buf), t)
    ELSE Append(buf, t)

\* index sets random.sample(self.buffer, min(batch_size, len)) may draw
Sample(buf, batch_size) ==
    LET k == IF batch_size < Len(buf) THEN batch_size ELSE Len(buf)
    IN  {S \in SUBSET (1..Len(buf)) : Cardinality(S) = k}

(***************************************************************************)
(* Brain                                                                   *)
(***************************************************************************)
FreshParams(net, oid) == [src |-> <<net, oid>>, ver |-> 0]

FreshAdam == [t |-> 0]

\* Brain.__init__: targets are copies of the live networks' initial values.
\* actor_training is nn.Module's mode flag of the actor (True on construction).
Brain(oid) ==
    [oid              |-> oid,
     actor            |-> FreshParams("actor", oid),
     critic           |-> FreshParams("critic", oid),
     actor_target     |-> FreshParams("actor", oid),
     critic_target    |-> FreshParams("critic", oid),
     optimizer_actor  |-> FreshAdam,
     optimizer_critic |-> FreshAdam,
     replay_buffer    |-> <<>>,
     actor_training   |-> TRUE]

Updated(p) == [p EXCEPT !.ver = @ + 1]

AdamStep(o) == [o EXCEPT !.t = @ + 1]

CriticUpdateMovesTarget(b) ==
    [b EXCEPT !.critic = Updated(@), !.optimizer_critic = AdamStep(@),
              !.critic_target = Updated(@)]

\* lines 95-104: critic loss backward, optimizer_critic.step()
CriticUpdate(b) ==
    [b EXCEPT !.critic = Updated(@), !.optimizer_critic = AdamStep(@)]

ActorUpdateStepsCritic(b) ==
    [b EXCEPT !.actor = Updated(@), !.optimizer_actor = AdamStep(@), !.critic = Updated(@)]

\* lines 105-109: actor loss backward (through the critic), optimizer_actor.step():
\* the optimizer holds self.actor.parameters() only
ActorUpdate(b) ==
    [b EXCEPT !.actor = Updated(@), !.optimizer_actor = AdamStep(@)]

\* line 112 / 114: target_param.data.copy_(target * (1 - TAU) + param.data * TAU)
SoftMix(target, live) == [src |-> target.src, ver |-> target.ver + 1, live |-> live]

\* lines 110-114: both targets, from the live networks as they are then
SoftUpdate(b) ==
    [b EXCEPT !.actor_target = SoftMix(@, b.actor), !.critic_target = SoftMix(@, b.critic)]

HasBatchOffByOne(b) == Len(b.replay_buffer) > BATCH_SIZE

\* line 86, negated: the buffer holds a full batch
HasBatch(b) == Len(b.replay_buffer) >= BATCH_SIZE

\* Brain.train_step: the Brain afterwards and the value returned.
TrainStep(b) ==
    IF ~HasBatch(b)
    THEN [brain |-> b, ret |-> "None"]
    ELSE [brain |-> SoftUpdate(ActorUpdate(CriticUpdate(b))), ret |-> "loss"]


(***************************************************************************)
(* Python values carried by requests.                                      *)
(*   id:  <<"int", n>> the integer n; <<"str", n>> the string holding the  *)
(*        decimal digits of n (n > 0) or the string "abc" (n = 0);         *)
(*        <<"none", 0>> None, the key absent.                              *)
(***************************************************************************)
IntId(n) == <<"int", n>>
StrId(n) == <<"str", n>>
NoId == <<"none", 0>>

\* int(creature_id): [ok, val]; not ok when int() raises.
IntOf(id) ==
    CASE id[1] = "int" -> [ok |-> TRUE, val |-> id[2]]
      [] id[1] = "str" /\ id[2] > 0 -> [ok |-> TRUE, val |-> id[2]]
      [] OTHER -> [ok |-> FALSE, val |-> 0]

\* Actor.parameters(): fc1.weight, fc1.bias, fc2.weight, fc2.bias, out.weight, out.bias
ActorNumels ==
    <<HIDDEN * STATE_DIM, HIDDEN, HIDDEN * HIDDEN, HIDDEN, ACTION_DIM * HIDDEN, ACTION_DIM>>

RECURSIVE SumSeq(_)
SumSeq(s) == IF s = <<>> THEN 0 ELSE Head(s) + SumSeq(Tail(s))

ActorParamCount == SumSeq(ActorNumels)

\* number of elements of flat_tensor[pointer : pointer + numel]
SliceLen(len, pointer, numel) ==
    LET stop == IF pointer + numel < len THEN pointer + numel ELSE len
    IN  IF stop > pointer THEN stop - pointer ELSE 0

RECURSIVE CopyParams(_, _, _)
\* the for loop of set_actor_weights_from_flat_list from parameter i on:
\* TRUE when every view_as succeeds
CopyParams(len, i, pointer) ==
    IF i > Len(ActorNumels) THEN TRUE
    ELSE IF SliceLen(len, pointer, ActorNumels[i]) # ActorNumels[i] THEN FALSE
    ELSE CopyParams(len, i + 1, pointer + ActorNumels[i])

\* set_actor_weights_from_flat_list: [ok, actor]; not ok when it raises
SetActorWeightsFromFlatList(actor, flat) ==
    IF CopyParams(flat.len, 1, 0)
    THEN [ok |-> TRUE, actor |-> [src |-> <<"flat", flat.tag>>, ver |-> 0]]
    ELSE [ok |-> FALSE, actor |-> actor]

PutDropsOthers(f, k, v) == [x \in {k} |-> v]

\* d[k] = v on a dict
Put(f, k, v) == [x \in DOMAIN f \cup {k} |-> IF x = k THEN v ELSE f[x]]

EmptyDict == [x \in {} |-> 0]

(***************************************************************************)
(* get_brain, executed without interference (the caller is the only        *)
(* thread): [brains, nextOid, brain].                                      *)
(***************************************************************************)
GetBrainAlwaysNew(reg, oidc, creature_id) ==
    [brains  |-> Put(reg, creature_id, Brain(oidc + 1)),
     nextOid |-> oidc + 1,
     brain   |-> Brain(oidc + 1)]

GetBrain(reg, oidc, creature_id) ==
    IF creature_id \notin DOMAIN reg
    THEN [brains  |-> Put(reg, creature_id, Brain(oidc + 1)),
          nextOid |-> oidc + 1,
          brain   |-> Brain(oidc + 1)]
    ELSE [brains |-> reg, nextOid |-> oidc, brain |-> reg[creature_id]]

\* brain.actor(state_tensor): determined by the parameters and the input
Forward(actor, x) == [actor |-> actor, x |-> x]

(***************************************************************************)
(* Requests and responses.  A request is the value json.loads returns:     *)
(*   dict     FALSE for a JSON value that is not an object                 *)
(*   type     "init", "evaluate", "train", "bogus", or "none" (absent)     *)
(*   weights  [present, len, tag]                                          *)
(*   sensors  [present, list], each entry [id, missing, n, x]: missing     *)
(*            says a required sensor key is absent, n is the combined      *)
(*            length of the three retina lists, x names the values         *)
(*   training list of [id, complete, t]: complete says state, action,      *)
(*            reward and next_state are all given, t is the transition     *)
(***************************************************************************)
Request(type, id, weights, sensors, training) ==
    [dict |-> TRUE, type |-> type, id |-> id, weights |-> weights,
     sensors |-> sensors, training |-> training]

NoWeights == [present |-> FALSE, len |-> 0, tag |-> 0]
Weights(len, tag) == [present |-> TRUE, len |-> len, tag |-> tag]
NoSensors == [present |-> FALSE, list |-> <<>>]
Sensors(list) == [present |-> TRUE, list |-> list]
Sensor(id, missing, n, x) == [id |-> id, missing |-> missing, n |-> n, x |-> x]
Item(id, complete, t) == [id |-> id, complete |-> complete, t |-> t]

Ok(results, info) ==
    [Status |-> "ok", Message |-> "", Error |-> "", Results |-> results, Info |-> info]
OkInit ==
    [Status |-> "ok", Message |-> "Initialized brain", Error |-> "",
     Results |-> EmptyDict, Info |-> EmptyDict]
Err(msg) ==
    [Status |-> "", Message |-> "", Error |-> msg, Results |-> EmptyDict, Info |-> EmptyDict]
NoResponse == Err("")

Outcome(reg, oidc, response, raised) ==
    [brains |-> reg, nextOid |-> oidc, response |-> response, raised |-> raised]

InitKeepsOld(request, reg, oidc) ==
    IF request.id = NoId \/ ~request.weights.present
    THEN Outcome(reg, oidc, Err("Missing 'id' or 'weights' field"), FALSE)
    ELSE LET w == SetActorWeightsFromFlatList(Brain(oidc + 1).actor, request.weights)
             key == IntOf(request.id)
         IN  IF w.ok /\ key.ok
             THEN Outcome(IF IntId(key.val) \in DOMAIN reg THEN reg
                          ELSE Put(reg, IntId(key.val), [Brain(oidc + 1) EXCEPT !.actor = w.actor]),
                          oidc + 1, OkInit, FALSE)
             ELSE Outcome(reg, oidc + 1, Err("Failed to initialize brain"), FALSE)

\* process_command, init branch (lines 146-157)
InitCommand(request, reg, oidc) ==
    IF request.id = NoId \/ ~request.weights.present
    THEN Outcome(reg, oidc, Err("Missing 'id' or 'weights' field"), FALSE)
    ELSE LET w == SetActorWeightsFromFlatList(Brain(oidc + 1).actor, request.weights)
             key == IntOf(request.id)
         IN  IF w.ok /\ key.ok
             THEN Outcome(Put(reg, IntId(key.val), [Brain(oidc + 1) EXCEPT !.actor = w.actor]),
                          oidc + 1, OkInit, FALSE)
             ELSE Outcome(reg, oidc + 1, Err("Failed to initialize brain"), FALSE)

RECURSIVE EvaluateLoopAborts(_, _, _, _, _)
EvaluateLoopAborts(batch, i, reg, oidc, results) ==
    IF i > Len(batch) THEN Outcome(reg, oidc, Ok(results, EmptyDict), FALSE)
    ELSE LET sensor == batch[i] IN
         IF sensor.id = NoId \/ sensor.missing \/ sensor.n + 1 # STATE_DIM
         THEN Outcome(reg, oidc, Ok(results, EmptyDict), FALSE)
         ELSE LET g == GetBrain(reg, oidc, sensor.id)
                  evald == [g.brain EXCEPT !.actor_training = FALSE]
                  reg2 == Put(g.brains, sensor.id, evald)
                  key == IntOf(sensor.id)
              IN  IF ~key.ok
                  THEN Outcome(reg2, g.nextOid, Err("exception"), TRUE)
                  ELSE EvaluateLoopAborts(batch, i + 1, reg2, g.nextOid,
                                          Put(results, IntId(key.val), Forward(evald.actor, sensor.x)))

RECURSIVE EvaluateLoop(_, _, _, _, _)
\* the for loop of the evaluate branch from entry i on (lines 163-195)
EvaluateLoop(batch, i, reg, oidc, results) ==
    IF i > Len(batch) THEN Outcome(reg, oidc, Ok(results, EmptyDict), FALSE)
    ELSE LET sensor == batch[i] IN
         IF sensor.id = NoId THEN EvaluateLoop(batch, i + 1, reg, oidc, results)
         ELSE IF sensor.missing THEN EvaluateLoop(batch, i + 1, reg, oidc, results)
         ELSE IF sensor.n + 1 # STATE_DIM THEN EvaluateLoop(batch, i + 1, reg, oidc, results)
         ELSE LET g == GetBrain(reg, oidc, sensor.id)
                  evald == [g.brain EXCEPT !.actor_training = FALSE]
                  reg2 == Put(g.brains, sensor.id, evald)
                  key == IntOf(sensor.id)
              IN  IF ~key.ok
                  THEN Outcome(reg2, g.nextOid, Err("exception"), TRUE)
                  ELSE EvaluateLoop(batch, i + 1, reg2, g.nextOid,
                                    Put(results, IntId(key.val), Forward(evald.actor, sensor.x)))

\* process_command, evaluate branch (lines 158-196)
EvaluateCommand(request, reg, oidc) ==
    IF ~request.sensors.present
    THEN Outcome(reg, oidc, Err("Missing 'sensors' field in evaluate command."), FALSE)
    ELSE EvaluateLoop(request.sensors.list, 1, reg, oidc, EmptyDict)

TrainRepeatOnce(b, n, info) ==
    LET r == TrainStep(b)
    IN  [brain |-> r.brain, info |-> IF r.ret = "None" THEN info ELSE Append(info, r.ret)]

RECURSIVE TrainRepeat(_, _, _)
\* for _ in range(5): train_step, None results dropped (lines 212-216)
TrainRepeat(b, n, info) ==
    IF n = 0 THEN [brain |-> b, info |-> info]
    ELSE LET r == TrainStep(b)
         IN  TrainRepeat(r.brain, n - 1, IF r.ret = "None" THEN info ELSE Append(info, r.ret))

RECURSIVE TrainLoop(_, _, _, _, _)
\* the for loop of the train branch from item i on (lines 201-217)
TrainLoop(batch, i, reg, oidc, train_info) ==
    IF i > Len(batch) THEN Outcome(reg, oidc, Ok(EmptyDict, train_info), FALSE)
    ELSE LET item == batch[i]
             g == GetBrain(reg, oidc, item.id)
         IN  IF ~item.complete
             THEN TrainLoop(batch, i + 1, g.brains, g.nextOid, train_info)
             ELSE LET stored == [g.brain EXCEPT !.replay_buffer = Push(@, item.t)]
                      r == TrainRepeat(stored, TRAIN_STEPS_PER_ENTRY, <<>>)
                  IN  TrainLoop(batch, i + 1, Put(g.brains, item.id, r.brain), g.nextOid,
                                Put(train_info, item.id, r.info))

\* process_command, train branch (lines 197-218)
TrainCommand(request, reg, oidc) == TrainLoop(request.training, 1, reg, oidc, EmptyDict)

\* process_command
ProcessCommand(request, reg, oidc) ==
    IF ~request.dict THEN Outcome(reg, oidc, Err("exception"), TRUE)
    ELSE CASE request.type = "init" -> InitCommand(request, reg, oidc)
           [] request.type = "evaluate" -> EvaluateCommand(request, reg, oidc)
           [] request.type = "train" -> TrainCommand(request, reg, oidc)
           [] OTHER -> Outcome(reg, oidc, Err("Unknown command type"), FALSE)

(***************************************************************************)
(* The wire.  A byte or character is a pair <<kind, i>>:                   *)
(*   <<"NL",0>>  the newline            <<"SP",0>>  a blank                *)
(*   <<"G",0>>   an ASCII character that starts no JSON value              *)
(*   <<"J",i>>   the JSON text of Requests[i], taken as one unit           *)
(*   <<"Q1",i>>  the JSON text of Requests[i] up to and including the      *)
(*               first byte of a two-byte UTF-8 character inside one of    *)
(*               its strings                                               *)
(*   <<"Q2",0>>  the second byte of that character and the rest of the     *)
(*               text                                                      *)
(*   <<"XX",0>>  a byte that is not UTF-8 (0xFF)                           *)
(* Characters are the kinds NL, SP, G and J.                               *)
(***************************************************************************)
NL == <<"NL", 0>>
SP == <<"SP", 0>>
GARBAGE == <<"G", 0>>
JS(i) == <<"J", i>>
LEAD(i) == <<"Q1", i>>
CONT == <<"Q2", 0>>
BAD == <<"XX", 0>>

RECURSIVE DecodeFrom(_, _, _)
\* data.decode("utf-8") from byte i on: [ok, text]; not ok when it raises
DecodeFrom(data, i, text) ==
    IF i > Len(data) THEN [ok |-> TRUE, text |-> text]
    ELSE CASE data[i] = BAD \/ data[i] = CONT -> [ok |-> FALSE, text |-> <<>>]
           [] data[i][1] = "Q1" ->
                IF i < Len(data) /\ data[i + 1] = CONT
                THEN DecodeFrom(data, i + 2, Append(text, JS(data[i][2])))
                ELSE [ok |-> FALSE, text |-> <<>>]
           [] OTHER -> DecodeFrom(data, i + 1, Append(text, data[i]))

Decode(data) == DecodeFrom(data, 1, <<>>)

HasNewline(text) == \E i \in 1..Len(text) : text[i] = NL

FirstNewline(text) == CHOOSE i \in 1..Len(text) : text[i] = NL /\ \A j \in 1..(i - 1) : text[j] # NL

\* buffer.split("\n", 1)
SplitLine(text) ==
    LET i == FirstNewline(text)
    IN  [line |-> SubSeq(text, 1, i - 1), rest |-> SubSeq(text, i + 1, Len(text))]

RECURSIVE LStrip(_)
LStrip(text) == IF text # <<>> /\ Head(text) = SP THEN LStrip(Tail(text)) ELSE text

RECURSIVE RStrip(_)
RStrip(text) ==
    IF text # <<>> /\ text[Len(text)] = SP THEN RStrip(SubSeq(text, 1, Len(text) - 1)) ELSE text

\* line.strip()
Strip(text) == RStrip(LStrip(text))

\* json.loads(line): [ok, index of the request]; not ok when it raises
JsonLoads(line) ==
    LET s == Strip(line)
    IN  IF Len(s) = 1 /\ s[1][1] = "J"
        THEN [ok |-> TRUE, req |-> s[1][2]]
        ELSE [ok |-> FALSE, req |-> 0]

(***************************************************************************)
(* The requests the clients send.                                          *)
(***************************************************************************)
OneSensor(id) == Sensors(<<Sensor(id, FALSE, STATE_DIM - 1, 1)>>)

Requests ==
    << Request("init", IntId(1), Weights(ActorParamCount, 1), NoSensors, <<>>),
       Request("init", IntId(1), Weights(ActorParamCount, 2), NoSensors, <<>>),
       Request("init", IntId(1), Weights(ActorParamCount - 1, 1), NoSensors, <<>>),
       Request("init", IntId(1), Weights(ActorParamCount + 1, 1), NoSensors, <<>>),
       Request("init", IntId(1), Weights(0, 1), NoSensors, <<>>),
       Request("init", IntId(1), NoWeights, NoSensors, <<>>),
       Request("init", NoId, Weights(ActorParamCount, 1), NoSensors, <<>>),
       Request("init", StrId(0), Weights(ActorParamCount, 1), NoSensors, <<>>),
       Request("init", StrId(1), Weights(ActorParamCount, 2), NoSensors, <<>>),
       Request("evaluate", NoId, NoWeights, OneSensor(IntId(1)), <<>>),
       Request("evaluate", NoId, NoWeights, OneSensor(IntId(2)), <<>>),
       Request("evaluate", NoId, NoWeights, NoSensors, <<>>),
       Request("train", NoId, NoWeights, NoSensors, <<Item(IntId(1), TRUE, 1)>>),
       Request("train", NoId, NoWeights, NoSensors, <<Item(IntId(1), TRUE, 2)>>),
       Request("train", NoId, NoWeights, NoSensors, <<Item(IntId(2), FALSE, 1)>>),
       Request("bogus", NoId, NoWeights, NoSensors, <<>>),
       Request("none", NoId, NoWeights, NoSensors, <<>>),
       [Request("none", NoId, NoWeights, NoSensors, <<>>) EXCEPT !.dict = FALSE],
       Request("evaluate", NoId, NoWeights,
               Sensors(<<Sensor(IntId(1), FALSE, STATE_DIM - 1, 1),
                         Sensor(IntId(2), TRUE, STATE_DIM - 1, 1),
                         Sensor(IntId(3), FALSE, STATE_DIM - 1, 2)>>), <<>>),
       Request("evaluate", NoId, NoWeights,
               Sensors(<<Sensor(IntId(1), FALSE, STATE_DIM - 1, 1),
                         Sensor(IntId(2), FALSE, STATE_DIM - 2, 1),
                         Sensor(IntId(3), FALSE, STATE_DIM - 1, 2)>>), <<>>),
       Request("evaluate", NoId, NoWeights, OneSensor(StrId(1)), <<>>),
       Request("train", NoId, NoWeights, NoSensors,
               <<Item(IntId(1), TRUE, 1), Item(IntId(2), FALSE, 1), Item(IntId(1), TRUE, 2)>>) >>

RequestIds == 1..Len(Requests)

\* a request framed as the protocol asks: JSON text + "\n"
Framed(i) == <<JS(i), NL>>

\* init for id 1 (two valid, one short, one long), evaluate and train for id 1
LineMenu == {Framed(i) : i \in {1, 2, 3, 4, 10, 13}}

\* batches: init for id "1"; evaluate for ids 1, 2, 3 where the entry of id 2
\* lacks a sensor key (19) or has a retina one short (20); evaluate for id "1";
\* train for ids 1, 2, 1 where the entry of id 2 lacks a field
BatchMenu == {Framed(i) : i \in {9, 19, 20, 21, 22}}

\* whole lines: an init whose JSON text holds a two-byte character, an
\* unknown type, a blank line; and pieces: a request without its newline,
\* a newline
ChunkMenu == {<<LEAD(1), CONT, NL>>, Framed(16), <<SP, NL>>, <<JS(16)>>, <<NL>>}

\* single bytes, and whole lines: a valid init, an unknown type, not JSON
WireBytes == {NL, SP, GARBAGE, BAD, JS(16), LEAD(1)}

WireMenu == {<<b>> : b \in WireBytes} \cup {Framed(1), Framed(16), <<GARBAGE, NL>>}

\* parallel workers running process_command; handle_client threads of Core
NumWorkers == 2
Workers == 1..NumWorkers
NumThreads == 2
Threads == 1..NumThreads

VARIABLES
    brains,      \* Server: dict brains, key -> Brain
    nextOid,     \* number of Brain objects constructed so far
    ret,         \* value returned by the last Brain-level call
    pushed,      \* history: every transition pushed, in order
    srv,         \* run_server: "accept", "recv", "lines" or "crashed"
    peer,        \* the connected client: "none", "open", "closed" or "reset"
    net,         \* bytes the client has sent and recv has not returned yet
    buffer,      \* run_server's buffer
    response,    \* run_server's response: the last one computed
    out,         \* responses written by sendall on this connection, in order
    rx,          \* history: the bytes recv has returned on this connection
    sends,       \* number of client sends so far
    conns,       \* number of connections accepted so far
    menu,        \* the chunks a client may send
    brains_lock, \* Server: the thread holding brains_lock, 0 when free
    wpc,         \* per worker: where it is in process_command
    wcall,       \* per worker: the call it is executing, [op, id, tag]
    wret,        \* per worker: oid of the Brain its last call returned or stored
    lazy,        \* history: per key, the Brains constructed by get_brain
    inited,      \* history: the keys an init has stored
    models,      \* Core: nn_manager.models, key -> SimpleNet
    models_lock, \* Core: the thread holding nn_manager.lock, 0 when free
    cpc,         \* per handle_client thread: where it is
    cmsg,        \* per thread: index of the message being handled, 0 if none
    cidx,        \* per thread: index of the entry being handled
    cmodel,      \* per thread: the model evaluate fetched
    cresults,    \* per thread: the results dict being built
    cout,        \* per thread: responses written, in order
    cdone,       \* number of messages the threads have received so far
    tpc,         \* train_step run statement by statement: where it is
    ty           \* train_step's y: the target values it was computed from

brainVars == <<brains, nextOid, ret, pushed>>
connVars == <<srv, peer, net, buffer, response, out, rx, sends, conns, menu>>
regVars == <<brains_lock, wpc, wcall, wret, lazy, inited>>
coreVars == <<models, models_lock, cpc, cmsg, cidx, cmodel, cresults, cout, cdone>>
stepVars == <<tpc, ty>>
vars == <<brains, nextOid, ret, pushed, srv, peer, net, buffer, response, out, rx, sends, conns,
          menu, brains_lock, wpc, wcall, wret, lazy, inited, models, models_lock, cpc, cmsg,
          cidx, cmodel, cresults, cout, cdone, tpc, ty>>

\* the parts of the state a specification does not use
RegIdle ==
    /\ brains_lock = 0 /\ wpc = [w \in Workers |-> "off"] /\ wcall = <<>> /\ wret = <<>>
    /\ lazy = <<>> /\ inited = {}

StepIdle == tpc = "off" /\ ty = <<>>

CoreIdle ==
    /\ models = <<>> /\ models_lock = 0 /\ cpc = [t \in Threads |-> "off"]
    /\ cmsg = <<>> /\ cidx = <<>> /\ cmodel = <<>> /\ cresults = <<>> /\ cout = <<>>
    /\ cdone = 0

(***************************************************************************)
(* Brain-level specification: one Brain driven through replay_buffer.push  *)
(* and train_step in every order.                                          *)
(***************************************************************************)
MaxPushes == 5
MaxTrainSteps == 3

TheKey == <<"int", 1>>

trained == brains[TheKey].optimizer_critic.t

InitBrain ==
    /\ brains = [k \in {TheKey} |-> Brain(1)]
    /\ nextOid = 1
    /\ ret = "new"
    /\ pushed = <<>>
    /\ srv = "off" /\ peer = "none" /\ net = <<>> /\ buffer = <<>>
    /\ response = NoResponse
    /\ out = <<>> /\ rx = <<>> /\ sends = 0 /\ conns = 0 /\ menu = {}
    /\ RegIdle /\ CoreIdle /\ StepIdle

BrainPush(t) ==
    /\ Len(pushed) < MaxPushes
    /\ brains' = [brains EXCEPT ![TheKey].replay_buffer = Push(@, t)]
    /\ pushed' = Append(pushed, t)
    /\ ret' = "pushed"
    /\ UNCHANGED <<nextOid, connVars>>
    /\ UNCHANGED <<regVars, coreVars, stepVars>>

BrainTrainStep ==
    /\ trained < MaxTrainSteps
    /\ LET r == TrainStep(brains[TheKey])
       IN  /\ brains' = [brains EXCEPT ![TheKey] = r.brain]
           /\ ret' = r.ret
    /\ UNCHANGED <<nextOid, pushed, connVars>>
    /\ UNCHANGED <<regVars, coreVars, stepVars>>

NextBrain ==
    \/ \E t \in Transitions : BrainPush(t)
    \/ BrainTrainStep

SpecBrain == InitBrain /\ [][NextBrain]_vars

(***************************************************************************)
(* train_step statement by statement (lines 85-115) on one Brain, with     *)
(* pushes and actor evaluations between the calls.                         *)
(*   tpc: "idle" outside train_step, then "critic" (batch sampled),        *)
(*        "actor" (critic optimizer stepped), "soft" (actor optimizer      *)
(*        stepped)                                                         *)
(***************************************************************************)
NoTargets == [actor_target |-> <<>>, critic_target |-> <<>>]

InitTrain ==
    /\ brains = [k \in {TheKey} |-> Brain(1)]
    /\ nextOid = 1
    /\ ret = "new"
    /\ pushed = <<>>
    /\ srv = "off" /\ peer = "none" /\ net = <<>> /\ buffer = <<>>
    /\ response = NoResponse
    /\ out = <<>> /\ rx = <<>> /\ sends = 0 /\ conns = 0 /\ menu = {}
    /\ RegIdle /\ CoreIdle
    /\ tpc = "idle" /\ ty = NoTargets

\* line 211: brain.replay_buffer.push, between two train_step calls
TrainPush(t) == tpc = "idle" /\ BrainPush(t)

\* lines 187-189: brain.actor.eval(); brain.actor(state_tensor) under no_grad
TrainEvaluate ==
    /\ tpc = "idle"
    /\ brains' = [brains EXCEPT ![TheKey].actor_training = FALSE]
    /\ ret' = "action"
    /\ UNCHANGED <<nextOid, pushed, connVars, regVars, coreVars, stepVars>>

\* lines 86-94: the length test, then the batch is sampled
TrainEnter ==
    /\ tpc = "idle" /\ trained < MaxTrainSteps
    /\ IF HasBatch(brains[TheKey])
       THEN tpc' = "critic" /\ ret' = "running"
       ELSE tpc' = "idle" /\ ret' = "None"
    /\ UNCHANGED <<brains, nextOid, pushed, connVars, regVars, coreVars, ty>>

\* lines 96-104: y from the target networks, then the critic step
TrainCritic ==
    /\ tpc = "critic"
    /\ ty' = [actor_target |-> brains[TheKey].actor_target,
              critic_target |-> brains[TheKey].critic_target]
    /\ brains' = [brains EXCEPT ![TheKey] = CriticUpdate(@)]
    /\ tpc' = "actor"
    /\ UNCHANGED <<nextOid, ret, pushed, connVars, regVars, coreVars>>

\* lines 106-109: the actor step
TrainActor ==
    /\ tpc = "actor"
    /\ brains' = [brains EXCEPT ![TheKey] = ActorUpdate(@)]
    /\ tpc' = "soft"
    /\ UNCHANGED <<nextOid, ret, pushed, connVars, regVars, coreVars, ty>>

\* lines 111-115: the soft update, then the losses are returned
TrainSoft ==
    /\ tpc = "soft"
    /\ brains' = [brains EXCEPT ![TheKey] = SoftUpdate(@)]
    /\ tpc' = "idle"
    /\ ret' = "loss"
    /\ UNCHANGED <<nextOid, pushed, connVars, regVars, coreVars, ty>>

NextTrain ==
    \/ \E t \in Transitions : TrainPush(t)
    \/ TrainEvaluate
    \/ TrainEnter
    \/ TrainCritic
    \/ TrainActor
    \/ TrainSoft

SpecTrain == InitTrain /\ [][NextTrain]_vars

(***************************************************************************)
(* run_server (Server/server.py lines 231-264): one connection at a time.  *)
(***************************************************************************)
MaxSends == 3
MaxConns == 2

InitServerWith(m) ==
    /\ brains = EmptyDict
    /\ nextOid = 0
    /\ ret = "none"
    /\ pushed = <<>>
    /\ srv = "accept" /\ peer = "none" /\ net = <<>> /\ buffer = <<>>
    /\ response = NoResponse
    /\ out = <<>> /\ rx = <<>> /\ sends = 0 /\ conns = 0
    /\ menu = m
    /\ RegIdle /\ CoreIdle /\ StepIdle

\* s.accept() returns a new connection; buffer = ""
Accept ==
    /\ srv = "accept" /\ peer = "none" /\ conns < MaxConns
    /\ srv' = "recv" /\ peer' = "open" /\ conns' = conns + 1
    /\ net' = <<>> /\ buffer' = <<>> /\ out' = <<>> /\ rx' = <<>>
    /\ UNCHANGED <<brainVars, response, sends, menu>>
    /\ UNCHANGED <<regVars, coreVars, stepVars>>

ClientSend(chunk) ==
    /\ peer = "open" /\ sends < MaxSends
    /\ net' = net \o chunk
    /\ sends' = sends + 1
    /\ UNCHANGED <<brainVars, srv, peer, buffer, response, out, rx, conns, menu>>
    /\ UNCHANGED <<regVars, coreVars, stepVars>>

\* the client closes its socket: the server reads what was sent, then EOF
ClientClose ==
    /\ peer = "open"
    /\ peer' = "closed"
    /\ UNCHANGED <<brainVars, srv, net, buffer, response, out, rx, sends, conns, menu>>
    /\ UNCHANGED <<regVars, coreVars, stepVars>>

\* the client aborts the connection (RST): unread bytes are discarded
ClientReset ==
    /\ peer = "open"
    /\ peer' = "reset" /\ net' = <<>>
    /\ UNCHANGED <<brainVars, srv, buffer, response, out, rx, sends, conns, menu>>
    /\ UNCHANGED <<regVars, coreVars, stepVars>>

\* leaving "with conn:": the connection is closed, back to s.accept()
Teardown ==
    /\ srv' = "accept" /\ peer' = "none" /\ net' = <<>>
    /\ UNCHANGED <<brainVars, buffer, response, out, rx, sends, conns, menu>>
    /\ UNCHANGED <<regVars, coreVars, stepVars>>

\* lines 242-251: conn.recv, the EOF test, buffer += data.decode("utf-8")
RecvData(data) ==
    LET d == Decode(data) IN
    /\ rx' = rx \o data
    /\ net' = SubSeq(net, Len(data) + 1, Len(net))
    /\ IF d.ok
       THEN /\ buffer' = buffer \o d.text
            /\ srv' = IF HasNewline(buffer') THEN "lines" ELSE "recv"
       ELSE /\ srv' = "crashed"
            /\ UNCHANGED buffer
    /\ UNCHANGED <<brainVars, peer, response, out, sends, conns, menu>>
    /\ UNCHANGED <<regVars, coreVars, stepVars>>

Recv ==
    /\ srv = "recv"
    /\ \/ peer = "reset" /\ Teardown
       \/ peer = "closed" /\ net = <<>> /\ Teardown
       \/ /\ peer # "reset"
          /\ \E n \in 1..Len(net) : RecvData(SubSeq(net, 1, n))

\* lines 257-261: the response to a line, and the registry afterwards
DispatchUncaught(line, reg, oidc) ==
    LET j == JsonLoads(line) IN
    IF ~j.ok THEN Outcome(reg, oidc, Err("exception"), TRUE)
    ELSE ProcessCommand(Requests[j.req], reg, oidc)

Dispatch(line, reg, oidc) ==
    LET j == JsonLoads(line) IN
    IF ~j.ok THEN Outcome(reg, oidc, Err("exception"), FALSE)
    ELSE LET o == ProcessCommand(Requests[j.req], reg, oidc)
         IN  [o EXCEPT !.raised = FALSE]

\* lines 253-263: one turn of "while "\n" in buffer"
ProcessLine ==
    /\ srv = "lines"
    /\ LET sp == SplitLine(buffer)
           more == IF HasNewline(sp.rest) THEN "lines" ELSE "recv"
       IN  /\ buffer' = sp.rest
           /\ IF Strip(sp.line) = <<>>
              THEN /\ srv' = more
                   /\ UNCHANGED <<brains, nextOid, response, out>>
              ELSE LET o == Dispatch(sp.line, brains, nextOid) IN
                   /\ brains' = o.brains
                   /\ nextOid' = o.nextOid
                   /\ IF o.raised
                      THEN srv' = "crashed" /\ UNCHANGED <<response, out>>
                      ELSE /\ response' = o.response
                           /\ \/ /\ out' = Append(out, o.response)
                                 /\ srv' = more
                              \/ /\ peer # "open"
                                 /\ srv' = "crashed"
                                 /\ UNCHANGED out
    /\ UNCHANGED <<ret, pushed, peer, net, rx, sends, conns, menu>>
    /\ UNCHANGED <<regVars, coreVars, stepVars>>

NextServer ==
    \/ Accept
    \/ \E chunk \in menu : ClientSend(chunk)
    \/ ClientClose
    \/ ClientReset
    \/ Recv
    \/ ProcessLine

InitServer == InitServerWith(LineMenu)

SpecServer == InitServer /\ [][NextServer]_vars

InitBatch == InitServerWith(BatchMenu)

SpecBatch == InitBatch /\ [][NextServer]_vars

InitChunk == InitServerWith(ChunkMenu)

SpecChunk == InitChunk /\ [][NextServer]_vars

InitWire == InitServerWith(WireMenu)

SpecWire == InitWire /\ [][NextServer]_vars

(***************************************************************************)
(* The registry under parallel callers.  get_brain takes brains_lock       *)
(* because process_command is meant to run on one worker per connection in *)
(* parallel; run_server above never does that (it serves one connection at *)
(* a time).  This specification runs the registry accesses of              *)
(* process_command on parallel workers, one step per registry access:      *)
(*   a lookup is get_brain as the evaluate and train branches call it,     *)
(*   an init is the init branch up to its registry write.                  *)
(***************************************************************************)
MaxCalls == 3
RegKeys == {IntId(1), IntId(2)}

InitReg ==
    /\ brains = EmptyDict
    /\ nextOid = 0
    /\ ret = "none" /\ pushed = <<>>
    /\ srv = "off" /\ peer = "none" /\ net = <<>> /\ buffer = <<>>
    /\ response = NoResponse
    /\ out = <<>> /\ rx = <<>> /\ sends = 0 /\ conns = 0 /\ menu = {}
    /\ brains_lock = 0
    /\ wpc = [w \in Workers |-> "idle"]
    /\ wcall = [w \in Workers |-> [op |-> "none", id |-> NoId, tag |-> 0]]
    /\ wret = [w \in Workers |-> 0]
    /\ lazy = [k \in RegKeys |-> {}]
    /\ inited = {}
    /\ CoreIdle /\ StepIdle

\* a worker enters get_brain(id) from the evaluate or train branch
CallGetBrain(w, id) ==
    /\ wpc[w] \in {"idle", "done"} /\ nextOid < MaxCalls
    /\ wpc' = [wpc EXCEPT ![w] = "acquire"]
    /\ wcall' = [wcall EXCEPT ![w] = [op |-> "lookup", id |-> id, tag |-> 0]]
    /\ UNCHANGED <<brainVars, connVars, brains_lock, wret, lazy, inited, coreVars, stepVars>>

\* a worker enters the init branch with a valid id and weight list:
\* brain = Brain(); set_actor_weights_from_flat_list(brain.actor, flat_weights)
CallInit(w, id, tag) ==
    /\ wpc[w] \in {"idle", "done"} /\ nextOid < MaxCalls
    /\ nextOid' = nextOid + 1
    /\ wret' = [wret EXCEPT ![w] = nextOid + 1]
    /\ wpc' = [wpc EXCEPT ![w] = "store"]
    /\ wcall' = [wcall EXCEPT ![w] = [op |-> "init", id |-> id, tag |-> tag]]
    /\ UNCHANGED <<brains, ret, pushed, connVars, brains_lock, lazy, inited, coreVars, stepVars>>

LockFreeIgnored == TRUE

\* line 124: threading.Lock lets one thread in
LockFree == brains_lock = 0

\* line 124: with brains_lock
GetBrainAcquire(w) ==
    /\ wpc[w] = "acquire" /\ LockFree
    /\ brains_lock' = w
    /\ wpc' = [wpc EXCEPT ![w] = "check"]
    /\ UNCHANGED <<brainVars, connVars, wcall, wret, lazy, inited, coreVars, stepVars>>

\* line 125: if creature_id not in brains
GetBrainCheck(w) ==
    /\ wpc[w] = "check"
    /\ wpc' = [wpc EXCEPT ![w] = IF wcall[w].id \notin DOMAIN brains THEN "insert" ELSE "return"]
    /\ UNCHANGED <<brainVars, connVars, brains_lock, wcall, wret, lazy, inited, coreVars, stepVars>>

\* line 126: brains[creature_id] = Brain()
GetBrainInsert(w) ==
    /\ wpc[w] = "insert"
    /\ nextOid' = nextOid + 1
    /\ brains' = Put(brains, wcall[w].id, Brain(nextOid + 1))
    /\ lazy' = [lazy EXCEPT ![wcall[w].id] = @ \cup {nextOid + 1}]
    /\ wpc' = [wpc EXCEPT ![w] = "return"]
    /\ UNCHANGED <<ret, pushed, connVars, brains_lock, wcall, wret, inited, coreVars, stepVars>>

\* line 127: return brains[creature_id], leaving the with block
GetBrainReturn(w) ==
    /\ wpc[w] = "return"
    /\ wret' = [wret EXCEPT ![w] = brains[wcall[w].id].oid]
    /\ brains_lock' = 0
    /\ wpc' = [wpc EXCEPT ![w] = "done"]
    /\ UNCHANGED <<brainVars, connVars, wcall, lazy, inited, coreVars, stepVars>>

\* line 154: brains[int(creature_id)] = brain, then return ok
InitStore(w) ==
    /\ wpc[w] = "store"
    /\ brains' = Put(brains, wcall[w].id,
                     [Brain(wret[w]) EXCEPT !.actor = [src |-> <<"flat", wcall[w].tag>>, ver |-> 0]])
    /\ inited' = inited \cup {wcall[w].id}
    /\ wpc' = [wpc EXCEPT ![w] = "done"]
    /\ UNCHANGED <<nextOid, ret, pushed, connVars, brains_lock, wcall, wret, lazy, coreVars, stepVars>>

NextReg ==
    \E w \in Workers :
        \/ \E id \in RegKeys : CallGetBrain(w, id)
        \/ \E id \in RegKeys : CallInit(w, id, 1)
        \/ GetBrainAcquire(w)
        \/ GetBrainCheck(w)
        \/ GetBrainInsert(w)
        \/ GetBrainReturn(w)
        \/ InitStore(w)

SpecReg == InitReg /\ [][NextReg]_vars

(***************************************************************************)
(* Core/server.py: NeuralNetworkManager and handle_client, one thread per  *)
(* connection.  A thread takes whole messages (a complete line that        *)
(* json.loads accepted); the steps are the entries of the message, and     *)
(* within an entry the lock operations of nn_manager.                      *)
(*   message: [type, brains, sensors]; a brains entry is [id, weights],    *)
(*   a sensors entry [id, x], x naming the seven sensor values.            *)
(***************************************************************************)
GENOME_LEN == 330
MaxMsgs == 3

CoreMessage(type, entries, sensors) == [type |-> type, brains |-> entries, sensors |-> sensors]
CoreBrain(id, weights) == [id |-> id, weights |-> weights]
CoreSensor(id, x) == [id |-> id, x |-> x]

CoreRequests ==
    << CoreMessage("init", <<CoreBrain(IntId(1), Weights(GENOME_LEN, 1))>>, <<>>),
       CoreMessage("init", <<CoreBrain(IntId(1), Weights(GENOME_LEN - 1, 2)),
                             CoreBrain(IntId(2), Weights(GENOME_LEN, 2)),
                             CoreBrain(IntId(3), NoWeights)>>, <<>>),
       CoreMessage("evaluate", <<>>, <<CoreSensor(IntId(1), 1)>>),
       CoreMessage("evaluate", <<>>, <<CoreSensor(IntId(2), 1), CoreSensor(IntId(1), 1)>>),
       CoreMessage("bogus", <<>>, <<>>) >>

\* SimpleNet.__init__ / load_genome_weights: [ok, model]
SimpleNet(oid, genome_weights) ==
    IF genome_weights.len # GENOME_LEN
    THEN [ok |-> FALSE, model |-> [oid |-> 0, weights |-> <<"flat", 0>>]]
    ELSE [ok |-> TRUE, model |-> [oid |-> oid, weights |-> <<"flat", genome_weights.tag>>]]

CoreResponse(status, error, results) == [status |-> status, error |-> error, results |-> results]

ZeroForces == [actor |-> <<"zeros", 0>>, x |-> 0]

InitCore ==
    /\ brains = EmptyDict
    /\ nextOid = 0
    /\ ret = "none" /\ pushed = <<>>
    /\ srv = "off" /\ peer = "none" /\ net = <<>> /\ buffer = <<>>
    /\ response = NoResponse
    /\ out = <<>> /\ rx = <<>> /\ sends = 0 /\ conns = 0 /\ menu = {}
    /\ RegIdle /\ StepIdle
    /\ models = EmptyDict
    /\ models_lock = 0
    /\ cpc = [t \in Threads |-> "recv"]
    /\ cmsg = [t \in Threads |-> 0]
    /\ cidx = [t \in Threads |-> 0]
    /\ cmodel = [t \in Threads |-> 0]
    /\ cresults = [t \in Threads |-> EmptyDict]
    /\ cout = [t \in Threads |-> <<>>]
    /\ cdone = 0

CoreEntries(t) ==
    IF CoreRequests[cmsg[t]].type = "init"
    THEN CoreRequests[cmsg[t]].brains
    ELSE CoreRequests[cmsg[t]].sensors

\* lines 107-117: a complete line arrives and json.loads accepts it
CoreReceive(t, m) ==
    /\ cpc[t] = "recv" /\ cdone < MaxMsgs
    /\ cdone' = cdone + 1
    /\ cmsg' = [cmsg EXCEPT ![t] = m]
    /\ cidx' = [cidx EXCEPT ![t] = 1]
    /\ cresults' = [cresults EXCEPT ![t] = EmptyDict]
    /\ cpc' = [cpc EXCEPT ![t] = "entry"]
    /\ UNCHANGED <<brainVars, connVars, regVars, stepVars, models, models_lock, cmodel, cout>>

\* lines 115-116, 182-185: a complete line arrives that json.loads rejects
CoreReceiveBad(t) ==
    /\ cpc[t] = "recv" /\ cdone < MaxMsgs
    /\ cdone' = cdone + 1
    /\ cout' = [cout EXCEPT ![t] = Append(@, CoreResponse("", "exception", EmptyDict))]
    /\ UNCHANGED <<brainVars, connVars, regVars, stepVars, models, models_lock, cpc, cmsg, cidx, cmodel,
                   cresults>>

\* lines 132-134, 174-176, 179-180: the response is written
CoreRespond(t) ==
    /\ cpc[t] = "entry"
    /\ LET type == CoreRequests[cmsg[t]].type IN
       /\ type \in {"init", "evaluate"} => cidx[t] > Len(CoreEntries(t))
       /\ cout' = [cout EXCEPT ![t] = Append(@,
             CASE type = "init" -> CoreResponse("initialized", "", cresults[t])
               [] type = "evaluate" -> CoreResponse("evaluated", "", cresults[t])
               [] OTHER -> CoreResponse("", "Unknown message type.", EmptyDict))]
    /\ cpc' = [cpc EXCEPT ![t] = "recv"]
    /\ UNCHANGED <<brainVars, connVars, regVars, stepVars, models, models_lock, cmsg, cidx, cmodel, cresults, cdone>>

CoreIsEntry(t, type) ==
    /\ cpc[t] = "entry"
    /\ CoreRequests[cmsg[t]].type = type
    /\ cidx[t] <= Len(CoreEntries(t))

CoreInitRejectAborts(t) ==
    /\ CoreIsEntry(t, "init")
    /\ LET brain == CoreEntries(t)[cidx[t]] IN
       /\ ~brain.weights.present \/ brain.weights.len # GENOME_LEN
       /\ cresults' = [cresults EXCEPT ![t] = Put(@, brain.id, FALSE)]
    /\ cidx' = [cidx EXCEPT ![t] = Len(CoreEntries(t)) + 1]
    /\ UNCHANGED <<brainVars, connVars, regVars, stepVars, models, models_lock, cpc, cmsg, cmodel, cout, cdone>>

\* lines 125-128: an init entry whose weights are missing or not 330 long
CoreInitReject(t) ==
    /\ CoreIsEntry(t, "init")
    /\ LET brain == CoreEntries(t)[cidx[t]] IN
       /\ ~brain.weights.present \/ brain.weights.len # GENOME_LEN
       /\ cresults' = [cresults EXCEPT ![t] = Put(@, brain.id, FALSE)]
    /\ cidx' = [cidx EXCEPT ![t] = @ + 1]
    /\ UNCHANGED <<brainVars, connVars, regVars, stepVars, models, models_lock, cpc, cmsg, cmodel, cout, cdone>>

\* lines 130, 76: register_model enters "with self.lock"
CoreRegisterAcquire(t) ==
    /\ CoreIsEntry(t, "init")
    /\ LET brain == CoreEntries(t)[cidx[t]] IN
       brain.weights.present /\ brain.weights.len = GENOME_LEN
    /\ models_lock = 0
    /\ models_lock' = t
    /\ cpc' = [cpc EXCEPT ![t] = "register"]
    /\ UNCHANGED <<brainVars, connVars, regVars, stepVars, models, cmsg, cidx, cmodel, cresults, cout, cdone>>

\* lines 77-83, 131: the model is built and stored, the lock released
CoreRegisterStore(t) ==
    /\ cpc[t] = "register"
    /\ LET brain == CoreEntries(t)[cidx[t]]
           net0 == SimpleNet(nextOid + 1, brain.weights)
       IN  /\ models' = IF net0.ok THEN Put(models, brain.id, net0.model) ELSE models
           /\ cresults' = [cresults EXCEPT ![t] = Put(@, brain.id, net0.ok)]
    /\ nextOid' = nextOid + 1
    /\ models_lock' = 0
    /\ cidx' = [cidx EXCEPT ![t] = @ + 1]
    /\ cpc' = [cpc EXCEPT ![t] = "entry"]
    /\ UNCHANGED <<brains, ret, pushed, connVars, regVars, stepVars, cmsg, cmodel, cout, cdone>>

\* lines 153, 86: evaluate enters "with self.lock"
CoreEvalAcquire(t) ==
    /\ CoreIsEntry(t, "evaluate")
    /\ models_lock = 0
    /\ models_lock' = t
    /\ cpc' = [cpc EXCEPT ![t] = "lookup"]
    /\ UNCHANGED <<brainVars, connVars, regVars, stepVars, models, cmsg, cidx, cmodel, cresults, cout, cdone>>

CoreEvalLookupCreates(t) ==
    /\ cpc[t] = "lookup"
    /\ models_lock' = 0
    /\ LET sensor == CoreEntries(t)[cidx[t]] IN
       /\ models' = IF sensor.id \in DOMAIN models THEN models
                    ELSE Put(models, sensor.id, [oid |-> nextOid + 1, weights |-> <<"zeros", 0>>])
       /\ cmodel' = [cmodel EXCEPT ![t] = models'[sensor.id].oid]
       /\ cpc' = [cpc EXCEPT ![t] = "forward"]
    /\ nextOid' = nextOid + 1
    /\ UNCHANGED <<brains, ret, pushed, connVars, regVars, stepVars, cmsg, cidx, cresults, cout, cdone>>

\* lines 87-89, 163-172: the model is fetched and the lock released, or the
\* id is not registered and the entry gets the all-zero record
CoreEvalLookup(t) ==
    /\ cpc[t] = "lookup"
    /\ models_lock' = 0
    /\ LET sensor == CoreEntries(t)[cidx[t]] IN
       IF sensor.id \in DOMAIN models
       THEN /\ cmodel' = [cmodel EXCEPT ![t] = models[sensor.id].oid]
            /\ cpc' = [cpc EXCEPT ![t] = "forward"]
            /\ UNCHANGED <<cidx, cresults>>
       ELSE /\ cresults' = [cresults EXCEPT ![t] = Put(@, sensor.id, ZeroForces)]
            /\ cidx' = [cidx EXCEPT ![t] = @ + 1]
            /\ cpc' = [cpc EXCEPT ![t] = "entry"]
            /\ UNCHANGED cmodel
    /\ UNCHANGED <<brainVars, connVars, regVars, stepVars, models, cmsg, cout, cdone>>

\* lines 90-93, 154-162: the forward pass on the fetched model ends
CoreEvalForward(t) ==
    /\ cpc[t] = "forward"
    /\ LET sensor == CoreEntries(t)[cidx[t]] IN
       cresults' = [cresults EXCEPT ![t] = Put(@, sensor.id, Forward(<<"model", cmodel[t]>>, sensor.x))]
    /\ cmodel' = [cmodel EXCEPT ![t] = 0]
    /\ cidx' = [cidx EXCEPT ![t] = @ + 1]
    /\ cpc' = [cpc EXCEPT ![t] = "entry"]
    /\ UNCHANGED <<brainVars, connVars, regVars, stepVars, models, models_lock, cmsg, cout, cdone>>

NextCore ==
    \E t \in Threads :
        \/ \E m \in 1..Len(CoreRequests) : CoreReceive(t, m)
        \/ CoreReceiveBad(t)
        \/ CoreRespond(t)
        \/ CoreInitReject(t)
        \/ CoreRegisterAcquire(t)
        \/ CoreRegisterStore(t)
        \/ CoreEvalAcquire(t)
        \/ CoreEvalLookup(t)
        \/ CoreEvalForward(t)

SpecCore == InitCore /\ [][NextCore]_vars

(***************************************************************************)
(* Either server: run_server fed from WireMenu, or Core's threads.         *)
(***************************************************************************)
InitEither == InitWire \/ InitCore

NextEither == NextServer \/ NextCore

SpecEither == InitEither /\ [][NextEither]_vars

\* the same with run_server fed from BatchMenu
InitBoth == InitBatch \/ InitCore

SpecBoth == InitBoth /\ [][NextEither]_vars

(***************************************************************************)
(* Properties                                                              *)
(***************************************************************************)
TheBuffer == brains[TheKey].replay_buffer

MinOf(a, b) == IF a < b THEN a ELSE b

\* C6: after any sequence of pushes the buffer holds at most
\* REPLAY_BUFFER_CAPACITY transitions, and they are exactly the most recent
\* min(n, capacity) of the n pushed, in insertion order (so each push on a
\* full buffer evicted the oldest one).
C6_RingSemantics ==
    LET n == Len(pushed)
        k == MinOf(n, REPLAY_BUFFER_CAPACITY)
    IN  /\ Len(TheBuffer) <= REPLAY_BUFFER_CAPACITY
        /\ TheBuffer = SubSeq(pushed, n - k + 1, n)

\* more pushes than the capacity, the evicted transition differing from the kept ones
C6_Witness ==
    /\ Len(pushed) = REPLAY_BUFFER_CAPACITY + 1
    /\ \A i \in 2..Len(pushed) : pushed[i] # pushed[1]
    /\ Len(TheBuffer) = REPLAY_BUFFER_CAPACITY

\* C7: a train_step on a buffer of fewer than BATCH_SIZE transitions returns
\* None and leaves the whole Brain (networks, targets, optimizers, buffer)
\* unchanged; on a buffer of at least BATCH_SIZE it returns a loss record.
C7_NoOpBelowBatch ==
    [][BrainTrainStep =>
         IF Len(TheBuffer) < BATCH_SIZE
         THEN ret' = "None" /\ brains' = brains
         ELSE ret' = "loss"]_vars

\* train_step has returned None on a non-empty buffer one short of a batch
C7_Witness ==
    /\ ret = "None"
    /\ Len(TheBuffer) = BATCH_SIZE - 1
    /\ Len(pushed) = BATCH_SIZE - 1

\* the line ProcessLine is about to take, and the request it holds
CurLine == SplitLine(buffer).line

IsRequestLine == srv = "lines" /\ JsonLoads(CurLine).ok

CurRequest == Requests[JsonLoads(CurLine).req]

IsInit(r) == r.dict /\ r.type = "init"

Oids(reg) == {reg[k].oid : k \in DOMAIN reg}

\* C4: an init that returns success leaves under int(id) a Brain constructed
\* by this request (an object the registry did not hold before), with an
\* empty replay buffer, fresh optimizers, the supplied weights in the actor
\* and the critic and both targets at their initial values, whatever was
\* registered before; evaluate and train keep every existing entry's Brain.
C4_InitReplaces ==
    [][(ProcessLine /\ IsRequestLine) =>
         LET r == CurRequest IN
         /\ (IsInit(r) /\ response'.Message = "Initialized brain") =>
              LET k == IntId(IntOf(r.id).val) IN
              /\ k \in DOMAIN brains'
              /\ brains'[k].oid \notin Oids(brains)
              /\ brains'[k].oid > nextOid
              /\ brains'[k].replay_buffer = <<>>
              /\ brains'[k].optimizer_actor = FreshAdam
              /\ brains'[k].optimizer_critic = FreshAdam
              /\ brains'[k].actor = [src |-> <<"flat", r.weights.tag>>, ver |-> 0]
              /\ brains'[k].critic = FreshParams("critic", brains'[k].oid)
              /\ brains'[k].actor_target = FreshParams("actor", brains'[k].oid)
              /\ brains'[k].critic_target = FreshParams("critic", brains'[k].oid)
         /\ (r.dict /\ r.type \in {"evaluate", "train"}) =>
              \A k \in DOMAIN brains :
                  k \in DOMAIN brains' /\ brains'[k].oid = brains[k].oid]_vars

\* id 1 was trained (losses reported), then an init replaced its Brain
C4_Witness ==
    /\ Len(out) = 3
    /\ IntId(1) \in DOMAIN out[2].Info
    /\ out[2].Info[IntId(1)] # <<>>
    /\ out[3].Message = "Initialized brain"
    /\ brains[IntId(1)].replay_buffer = <<>>
    /\ brains[IntId(1)].optimizer_critic = FreshAdam
    /\ brains[IntId(1)].oid = 2

\* C5 as stated: an init whose weight list is shorter or longer than the
\* actor's parameter count gets an error result and leaves the registry
\* as it was.
C5_WrongLengthFails ==
    [][(ProcessLine /\ IsRequestLine /\ IsInit(CurRequest)
          /\ CurRequest.id # NoId /\ CurRequest.weights.present
          /\ CurRequest.weights.len # ActorParamCount) =>
         (response'.Error # "" /\ brains' = brains)]_vars

RECURSIVE RequestLinesFrom(_, _, _)
\* the complete lines among bytes i.. that hold more than blanks; blank
\* says whether the line being read has held only blanks so far
RequestLinesFrom(bytes, i, blank) ==
    IF i > Len(bytes) THEN 0
    ELSE IF bytes[i] = NL
         THEN (IF blank THEN 0 ELSE 1) + RequestLinesFrom(bytes, i + 1, TRUE)
         ELSE RequestLinesFrom(bytes, i + 1, blank /\ bytes[i] = SP)

RequestLines(bytes) == RequestLinesFrom(bytes, 1, TRUE)

\* C8 as stated (its count): once the server has finished with what it
\* received from a client that is still connected, it has written exactly one
\* response for every complete non-empty line it received.
C8_OneResponsePerLine ==
    (peer = "open" /\ srv \in {"recv", "crashed"}) => Len(out) = RequestLines(rx)

\* a run_server step that takes a line which is not JSON or names no known
\* command type: what C9 asks of it
ServerBadLineAnswered ==
    (ProcessLine /\ Strip(CurLine) # <<>>
       /\ (~JsonLoads(CurLine).ok
           \/ ~CurRequest.dict
           \/ CurRequest.type \notin {"init", "evaluate", "train"})) =>
      /\ response'.Error # ""
      /\ brains' = brains
      /\ buffer' = SplitLine(buffer).rest
      /\ peer = "open" =>
           /\ out' = Append(out, response')
           /\ srv' \in {"lines", "recv"}
           /\ peer' = "open"

\* the same for a handle_client thread of Core, which is back in conn.recv
\* afterwards
CoreBadLineAnswered ==
    \A t \in Threads :
        (CoreReceiveBad(t)
           \/ (CoreRespond(t) /\ CoreRequests[cmsg[t]].type \notin {"init", "evaluate"})) =>
          /\ Len(cout'[t]) = Len(cout[t]) + 1
          /\ cout'[t][Len(cout'[t])].error # ""
          /\ models' = models
          /\ cpc'[t] = "recv"

\* C9: a line that is not JSON, or whose JSON names no known command type,
\* gets an error response and changes nothing in the registry; while the
\* client stays connected the response is written, the connection stays
\* open and the rest of the buffer is kept for the requests that follow.
\* Stated for run_server and for Core's handle_client.
C9_BadLineIsAnswered == [][ServerBadLineAnswered /\ CoreBadLineAnswered]_vars

\* on one connection: a line that is not JSON and an unknown type were
\* answered with errors, then a valid init was served
C9_Witness ==
    /\ Len(out) = 3
    /\ out[1].Error = "exception"
    /\ out[2].Error = "Unknown command type"
    /\ out[3].Message = "Initialized brain"
    /\ conns = 1 /\ peer = "open" /\ srv = "recv"

\* C10 as stated: whatever the clients do, run_server is still in its accept
\* loop or serving a connection.
C10_ServerSurvives == srv # "crashed"

ReturnedLookups(k) == {w \in Workers : wpc[w] = "done" /\ wcall[w].op = "lookup" /\ wcall[w].id = k}

\* C1: for a key no init has written, however the get_brain calls of the
\* workers interleave, get_brain constructs at most one Brain, exactly one
\* once a call has returned, and every call that has returned returned that
\* Brain, which is the one registered.
C1_AtMostOneCreate ==
    \A k \in RegKeys \ inited :
        /\ Cardinality(lazy[k]) <= 1
        /\ \A w \in ReturnedLookups(k) : lazy[k] = {wret[w]} /\ brains[k].oid = wret[w]

\* two workers are inside get_brain for the same id, which was not
\* registered: one has inserted its Brain and still holds the lock, the other
\* waits for the lock
C1_Witness ==
    \E w1, w2 \in Workers :
        /\ wpc[w1] = "return" /\ wpc[w2] = "acquire"
        /\ wcall[w1].id = wcall[w2].id
        /\ wcall[w1].id \notin inited
        /\ lazy[wcall[w1].id] = {brains[wcall[w1].id].oid}

C3_OneAtATimePerBrain ==
    \A t1, t2 \in Threads :
        (t1 # t2 /\ cpc[t1] = "forward" /\ cpc[t2] = "forward") => cmodel[t1] # cmodel[t2]

\* the Brain of the statement-by-statement specification
TheBrain == brains[TheKey]

\* C16: within a train_step that trains, the actor update (second backward
\* pass and optimizer_actor.step()) changes the actor's parameters and leaves
\* the critic's parameters and the critic optimizer as the critic step of the
\* same train_step left them.
C16_ActorUpdateKeepsCritic ==
    [][TrainActor =>
         /\ brains'[TheKey].critic = TheBrain.critic
         /\ brains'[TheKey].optimizer_critic = TheBrain.optimizer_critic
         /\ brains'[TheKey].critic.ver = brains'[TheKey].optimizer_critic.t
         /\ brains'[TheKey].actor # TheBrain.actor]_vars

\* a second train_step has done its critic step and its actor step
C16_Witness ==
    /\ tpc = "soft"
    /\ TheBrain.critic.ver = 2
    /\ TheBrain.actor.ver = 2

\* C17: a Brain's targets change only in the soft-update step that ends a
\* train_step that trains; that step comes after both optimizer steps of the
\* call and mixes in the live values as those steps left them, and y was
\* computed from the targets as they were before it.  Pushes, evaluations,
\* a train_step on a short buffer and the two optimizer steps leave both
\* targets unchanged.
C17_TargetsOnlySoftUpdate ==
    [][(brains'[TheKey].actor_target # TheBrain.actor_target
          \/ brains'[TheKey].critic_target # TheBrain.critic_target) =>
         /\ tpc = "soft" /\ tpc' = "idle" /\ ret' = "loss"
         /\ TheBrain.optimizer_critic.t = TheBrain.critic_target.ver + 1
         /\ TheBrain.optimizer_actor.t = TheBrain.actor_target.ver + 1
         /\ brains'[TheKey].actor_target.live = TheBrain.actor
         /\ brains'[TheKey].critic_target.live = TheBrain.critic
         /\ brains'[TheKey].actor = TheBrain.actor
         /\ brains'[TheKey].critic = TheBrain.critic
         /\ ty = [actor_target |-> TheBrain.actor_target,
                  critic_target |-> TheBrain.critic_target]]_vars

\* two train_steps have trained, with a push, an evaluation and a
\* train_step on a short buffer before them
C17_Witness ==
    /\ tpc = "idle" /\ ret = "loss"
    /\ TheBrain.actor_target.ver = 2
    /\ TheBrain.critic_target.ver = 2
    /\ TheBrain.actor_target.live.ver = 2
    /\ ~TheBrain.actor_training

(***************************************************************************)
(* Batches: properties of one process_command call on an evaluate or       *)
(* train request.                                                          *)
(***************************************************************************)
EvaluateStep ==
    /\ ProcessLine /\ IsRequestLine
    /\ CurRequest.dict /\ CurRequest.type = "evaluate" /\ CurRequest.sensors.present

TrainRequestStep ==
    /\ ProcessLine /\ IsRequestLine
    /\ CurRequest.dict /\ CurRequest.type = "train"

\* an evaluate entry that has its id, every sensor key and STATE_DIM values
WellFormedSensor(e) == e.id # NoId /\ ~e.missing /\ e.n + 1 = STATE_DIM

\* indices of the well-formed entries of an evaluate batch
GoodSensors(batch) == {i \in 1..Len(batch) : WellFormedSensor(batch[i])}

\* the key the response carries for an id
ResultKey(id) == IntId(IntOf(id).val)

\* run_server: in an evaluate batch whose well-formed entries carry ids
\* int() accepts, the response is ok and holds exactly the results of the
\* well-formed entries, each the output of the actor of the Brain registered
\* for its id
ServerEvaluateIsolated ==
    EvaluateStep =>
      LET batch == CurRequest.sensors.list
          good == GoodSensors(batch)
      IN  (\A i \in good : IntOf(batch[i].id).ok) =>
            /\ response'.Status = "ok" /\ response'.Error = ""
            /\ DOMAIN response'.Results = {ResultKey(batch[i].id) : i \in good}
            /\ \A i \in good :
                 \E j \in good :
                    /\ ResultKey(batch[j].id) = ResultKey(batch[i].id)
                    /\ batch[j].id \in DOMAIN brains'
                    /\ response'.Results[ResultKey(batch[i].id)]
                         = Forward(brains'[batch[j].id].actor, batch[j].x)

\* Core: every entry of an evaluate message is handled and the next one
\* follows, an entry without a registered model gets the all-zero record, the
\* others a forward output, and the one response is the success response
\* with a result for every entry
CoreEvaluateIsolated ==
    \A t \in Threads :
        /\ CoreEvalLookup(t) =>
             LET sensor == CoreEntries(t)[cidx[t]] IN
             IF sensor.id \in DOMAIN models
             THEN cpc'[t] = "forward" /\ cresults'[t] = cresults[t]
             ELSE /\ cresults'[t] = Put(cresults[t], sensor.id, ZeroForces)
                  /\ cidx'[t] = cidx[t] + 1 /\ cpc'[t] = "entry"
        /\ CoreEvalForward(t) =>
             LET sensor == CoreEntries(t)[cidx[t]] IN
             /\ cresults'[t][sensor.id] # ZeroForces
             /\ cresults'[t][sensor.id].x = sensor.x
             /\ \A k \in DOMAIN cresults[t] \ {sensor.id} : cresults'[t][k] = cresults[t][k]
             /\ cidx'[t] = cidx[t] + 1 /\ cpc'[t] = "entry"
        /\ (CoreRespond(t) /\ CoreRequests[cmsg[t]].type = "evaluate") =>
             LET r == cout'[t][Len(cout'[t])] IN
             /\ Len(cout'[t]) = Len(cout[t]) + 1
             /\ r.status = "evaluated" /\ r.error = ""
             /\ DOMAIN r.results = {CoreEntries(t)[i].id : i \in 1..Len(CoreEntries(t))}

\* C11: evaluate batch isolation.  run_server: an entry that lacks a sensor
\* key or whose sensor vector has the wrong length gets no result, every
\* other entry gets the output of its own Brain's actor (also the entries
\* after the malformed one) and the status is ok.  Core (where a missing
\* sensor key is replaced by its default, so the entry that cannot be
\* evaluated is one whose id has no model): that entry gets the all-zero
\* record, every other entry its forward output, the status is the success
\* status.
C11_EvaluateBatchIsolation == [][ServerEvaluateIsolated /\ CoreEvaluateIsolated]_vars

\* a batch of three with the middle entry malformed was answered with the
\* results of the first and the third, of different Brains
C11_Witness ==
    /\ Len(out) >= 1
    /\ out[1].Status = "ok"
    /\ DOMAIN out[1].Results = {IntId(1), IntId(3)}
    /\ out[1].Results[IntId(1)].actor # out[1].Results[IntId(3)].actor
    /\ IntId(2) \notin DOMAIN brains

\* the complete entries of a train batch that carry id k, in batch order
ItemsFor(batch, k) == SelectSeq(batch, LAMBDA it : it.id = k /\ it.complete)

\* what a bounded deque holds after more appends
LastOf(all) ==
    IF Len(all) <= REPLAY_BUFFER_CAPACITY THEN all
    ELSE SubSeq(all, Len(all) - REPLAY_BUFFER_CAPACITY + 1, Len(all))

\* the transitions of a sequence of entries
TransitionsOf(items) == [i \in 1..Len(items) |-> items[i].t]

\* the entries after whose push a buffer that held n transitions holds a batch
TrainingEntries(n, items) ==
    {i \in 1..Len(items) : MinOf(n + i, REPLAY_BUFFER_CAPACITY) >= BATCH_SIZE}

\* C13: a train request is answered ok and, for every id k with complete
\* entries, k's buffer has received exactly their transitions, one each, in
\* batch order; train_step has trained five times for every entry after
\* whose push the buffer held a batch and not at all for the others (whose
\* five None results are dropped); Info[k] holds the losses of k's last
\* entry.
C13_TrainDispatch ==
    [][TrainRequestStep =>
         LET batch == CurRequest.training
             ids == {batch[i].id : i \in {j \in 1..Len(batch) : batch[j].complete}}
         IN  /\ response'.Status = "ok" /\ response'.Error = ""
             /\ DOMAIN response'.Info = ids
             /\ \A k \in ids :
                  LET old == IF k \in DOMAIN brains THEN brains[k] ELSE Brain(0)
                      items == ItemsFor(batch, k)
                      n == Len(old.replay_buffer)
                      training == TrainingEntries(n, items)
                  IN  /\ k \in DOMAIN brains'
                      /\ brains'[k].replay_buffer
                           = LastOf(old.replay_buffer \o TransitionsOf(items))
                      /\ brains'[k].optimizer_critic.t
                           = old.optimizer_critic.t + TRAIN_STEPS_PER_ENTRY * Cardinality(training)
                      /\ brains'[k].optimizer_actor.t
                           = old.optimizer_actor.t + TRAIN_STEPS_PER_ENTRY * Cardinality(training)
                      /\ brains'[k].critic_target.ver
                           = old.critic_target.ver + TRAIN_STEPS_PER_ENTRY * Cardinality(training)
                      /\ Len(response'.Info[k])
                           = IF Len(items) \in training THEN TRAIN_STEPS_PER_ENTRY ELSE 0]_vars

\* one request: the first entry of id 1 was pushed on an empty buffer (five
\* None results), the second filled a batch and train_step trained five times
C13_Witness ==
    /\ Len(out) = 1
    /\ IntId(1) \in DOMAIN out[1].Info
    /\ Len(out[1].Info[IntId(1)]) = TRAIN_STEPS_PER_ENTRY
    /\ brains[IntId(1)].replay_buffer = <<1, 2>>
    /\ brains[IntId(1)].optimizer_critic.t = TRAIN_STEPS_PER_ENTRY

\* what evaluate may not change of a Brain: everything but the actor's mode flag
SameBrain(a, b) ==
    /\ a.oid = b.oid
    /\ a.actor = b.actor /\ a.critic = b.critic
    /\ a.actor_target = b.actor_target /\ a.critic_target = b.critic_target
    /\ a.optimizer_actor = b.optimizer_actor /\ a.optimizer_critic = b.optimizer_critic
    /\ a.replay_buffer = b.replay_buffer

\* run_server: an evaluate leaves every registered Brain as it was, and the
\* result for an id that has a Brain is determined by that Brain's actor
\* parameters as they were and the entry's sensor values
ServerEvaluatePure ==
    EvaluateStep =>
      LET batch == CurRequest.sensors.list
          good == GoodSensors(batch)
      IN  /\ \A k \in DOMAIN brains : k \in DOMAIN brains' /\ SameBrain(brains'[k], brains[k])
          /\ (\A i \in good : IntOf(batch[i].id).ok) =>
               \A i \in good :
                  (/\ batch[i].id \in DOMAIN brains
                   /\ \A j \in good : ResultKey(batch[j].id) = ResultKey(batch[i].id) => j = i) =>
                    response'.Results[ResultKey(batch[i].id)]
                      = Forward(brains[batch[i].id].actor, batch[i].x)

\* Core: no step of evaluate changes nn_manager.models, and the result is
\* the forward output of the model fetched for the id on the entry's values
CoreEvaluatePure ==
    \A t \in Threads :
        /\ (CoreEvalAcquire(t) \/ CoreEvalLookup(t) \/ CoreEvalForward(t)) => models' = models
        /\ CoreEvalLookup(t) =>
             LET sensor == CoreEntries(t)[cidx[t]] IN
             sensor.id \in DOMAIN models => cmodel'[t] = models[sensor.id].oid
        /\ CoreEvalForward(t) =>
             LET sensor == CoreEntries(t)[cidx[t]] IN
             cresults'[t][sensor.id] = Forward(<<"model", cmodel[t]>>, sensor.x)

\* C14: an evaluate for an id that has a Brain leaves the registry and the
\* Brain's actor, critic, targets, optimizers and replay buffer unchanged,
\* and its output is a function of the actor's parameters and the sensor
\* vector alone, so that two evaluates with the same vector and no init or
\* training train_step for the id between them return the same output.
C14_ActPure == [][ServerEvaluatePure /\ CoreEvaluatePure]_vars

\* after an init for key 1, two evaluates in a row returned the same output
\* for it, computed from the weights the init loaded
C14_Witness ==
    /\ Len(out) = 3
    /\ out[1].Message = "Initialized brain"
    /\ IntId(1) \in DOMAIN out[2].Results
    /\ IntId(1) \in DOMAIN out[3].Results
    /\ out[2].Results[IntId(1)] = out[3].Results[IntId(1)]
    /\ out[2].Results[IntId(1)].actor.src[1] = "flat"
    /\ ~brains[IntId(1)].actor_training

\* the ids of a request all of whose entries are skipped
SkippedIds(r) ==
    IF r.type = "evaluate"
    THEN {r.sensors.list[i].id : i \in 1..Len(r.sensors.list)}
           \ {r.sensors.list[i].id : i \in GoodSensors(r.sensors.list)}
    ELSE {r.training[i].id : i \in 1..Len(r.training)}
           \ {r.training[i].id : i \in {j \in 1..Len(r.training) : r.training[j].complete}}

\* C15 as stated: an id whose entries in an evaluate or train batch are all
\* skipped for a missing key has no Brain created for it and, if it has one,
\* that Brain is left as it was.
C15_SkippedNoEffect ==
    [][(ProcessLine /\ IsRequestLine /\ CurRequest.dict
          /\ CurRequest.type \in {"evaluate", "train"}) =>
         \A k \in SkippedIds(CurRequest) :
             IF k \in DOMAIN brains
             THEN k \in DOMAIN brains' /\ brains'[k] = brains[k]
             ELSE k \notin DOMAIN brains']_vars

\* the ids of the entries of a request that reach get_brain
LookupIds(r) ==
    IF r.type = "evaluate"
    THEN {r.sensors.list[i].id : i \in GoodSensors(r.sensors.list)}
    ELSE {r.training[i].id : i \in 1..Len(r.training)}

\* C20 as stated: when the key init writes for an id value holds a Brain an
\* init installed, an evaluate or train entry carrying that id value operates
\* on that Brain.
C20_KeysAgree ==
    [][(ProcessLine /\ IsRequestLine /\ CurRequest.dict
          /\ CurRequest.type \in {"evaluate", "train"}) =>
         \A id \in LookupIds(CurRequest) :
             (/\ IntOf(id).ok
              /\ ResultKey(id) \in DOMAIN brains
              /\ brains[ResultKey(id)].actor.src[1] = "flat") =>
               /\ id \in DOMAIN brains'
               /\ brains'[id].oid = brains[ResultKey(id)].oid]_vars

\* C18: no step of either server removes an id from its registry.
C18_RegistryOnlyGrows ==
    [][/\ DOMAIN brains \subseteq DOMAIN brains'
       /\ DOMAIN models \subseteq DOMAIN models']_vars

\* on a second connection the registry holds an entry an init replaced and
\* two that were created lazily on the first
C18_Witness ==
    /\ conns = 2 /\ peer = "open"
    /\ {IntId(1), IntId(3), StrId(1)} \subseteq DOMAIN brains
    /\ brains[IntId(1)].actor.src[1] = "flat"
    /\ brains[IntId(1)].oid > brains[IntId(3)].oid

(***************************************************************************)
(* Core: batches                                                           *)
(***************************************************************************)
\* the entry thread t is at
CoreEntry(t) == CoreEntries(t)[cidx[t]]

\* C12: every entry of an init message is handled on its own: one whose
\* weights are missing or not GENOME_LEN long is recorded as False under its
\* id and registers nothing, a valid one is registered with its weights and
\* recorded as True, in both cases the next entry follows; the message gets
\* one response, "initialized", whose result map has every entry's id.
C12_InitBatchIsolation ==
    [][\A t \in Threads :
         /\ (CoreInitReject(t) \/ CoreRegisterAcquire(t)) =>
              IF ~CoreEntry(t).weights.present \/ CoreEntry(t).weights.len # GENOME_LEN
              THEN /\ models' = models
                   /\ cresults'[t] = Put(cresults[t], CoreEntry(t).id, FALSE)
                   /\ cidx'[t] = cidx[t] + 1 /\ cpc'[t] = "entry"
              ELSE /\ models' = models /\ cresults' = cresults
                   /\ cpc'[t] = "register"
         /\ CoreRegisterStore(t) =>
              /\ CoreEntry(t).id \in DOMAIN models'
              /\ models'[CoreEntry(t).id].weights = <<"flat", CoreEntry(t).weights.tag>>
              /\ models'[CoreEntry(t).id].oid > nextOid
              /\ \A k \in DOMAIN models \ {CoreEntry(t).id} :
                    k \in DOMAIN models' /\ models'[k] = models[k]
              /\ cresults'[t] = Put(cresults[t], CoreEntry(t).id, TRUE)
              /\ cidx'[t] = cidx[t] + 1 /\ cpc'[t] = "entry"
         /\ (CoreRespond(t) /\ CoreRequests[cmsg[t]].type = "init") =>
              LET r == cout'[t][Len(cout'[t])] IN
              /\ Len(cout'[t]) = Len(cout[t]) + 1
              /\ r.status = "initialized" /\ r.error = ""
              /\ r.results = cresults[t]
              /\ DOMAIN r.results = {CoreEntries(t)[i].id : i \in 1..Len(CoreEntries(t))}
              /\ models' = models]_vars

\* a batch of a short entry, a valid one and one without weights was
\* answered: False, True, False, and only the valid one is registered
C12_Witness ==
    \E t \in Threads :
        /\ Len(cout[t]) = 1
        /\ cout[t][1].status = "initialized"
        /\ cout[t][1].results = (IntId(1) :> FALSE) @@ (IntId(2) :> TRUE) @@ (IntId(3) :> FALSE)
        /\ DOMAIN models = {IntId(2)}
        /\ models[IntId(2)].weights = <<"flat", 2>>

\* C19: Core's evaluate never adds or replaces an entry of nn_manager.models;
\* an entry whose id has no registered model gets the all-zero record, an
\* entry whose id has one gets the forward output of the model that was
\* registered for it when evaluate looked it up, and the response is
\* "evaluated" for the whole batch.
C19_ZeroFill ==
    [][\A t \in Threads :
         /\ (CoreEvalAcquire(t) \/ CoreEvalLookup(t) \/ CoreEvalForward(t)
               \/ (CoreRespond(t) /\ CoreRequests[cmsg[t]].type = "evaluate")) =>
              models' = models
         /\ CoreEvalLookup(t) =>
              IF CoreEntry(t).id \in DOMAIN models
              THEN /\ cmodel'[t] = models[CoreEntry(t).id].oid
                   /\ cpc'[t] = "forward"
              ELSE /\ cresults'[t] = Put(cresults[t], CoreEntry(t).id, ZeroForces)
                   /\ cpc'[t] = "entry"
         /\ CoreEvalForward(t) =>
              cresults'[t] = Put(cresults[t], CoreEntry(t).id,
                                 Forward(<<"model", cmodel[t]>>, CoreEntry(t).x))
         /\ (CoreRespond(t) /\ CoreRequests[cmsg[t]].type = "evaluate") =>
              /\ cout'[t][Len(cout'[t])].status = "evaluated"
              /\ cout'[t][Len(cout'[t])].results = cresults[t]]_vars

\* one response holds the all-zero record for id 2, which has no model, and
\* a forward output for id 1, which has one
C19_Witness ==
    \E t \in Threads :
        /\ Len(cout[t]) >= 1
        /\ DOMAIN models = {IntId(1)}
        /\ cout[t][Len(cout[t])].status = "evaluated"
        /\ DOMAIN cout[t][Len(cout[t])].results = {IntId(1), IntId(2)}
        /\ cout[t][Len(cout[t])].results[IntId(2)] = ZeroForces
        /\ cout[t][Len(cout[t])].results[IntId(1)] = Forward(<<"model", models[IntId(1)].oid>>, 1)

(***************************************************************************)
(* Framing                                                                 *)
(***************************************************************************)
RECURSIVE StreamTextFrom(_, _, _)
\* the text of a byte stream taken as a whole, from byte i on: [ok, text];
\* a character whose second byte has not arrived yet is held back, not ok
\* when the stream is not UTF-8
StreamTextFrom(bytes, i, text) ==
    IF i > Len(bytes) THEN [ok |-> TRUE, text |-> text]
    ELSE CASE bytes[i] = BAD \/ bytes[i] = CONT -> [ok |-> FALSE, text |-> text]
           [] bytes[i][1] = "Q1" ->
                IF i = Len(bytes) THEN [ok |-> TRUE, text |-> text]
                ELSE IF bytes[i + 1] = CONT
                     THEN StreamTextFrom(bytes, i + 2, Append(text, JS(bytes[i][2])))
                     ELSE [ok |-> FALSE, text |-> text]
           [] OTHER -> StreamTextFrom(bytes, i + 1, Append(text, bytes[i]))

StreamText(bytes) == StreamTextFrom(bytes, 1, <<>>)

RECURSIVE AfterLastNewline(_)
\* the unterminated rest of a text
AfterLastNewline(text) ==
    IF HasNewline(text) THEN AfterLastNewline(SplitLine(text).rest) ELSE text

\* run_server has taken everything recv returned on the open connection
\* and the bytes received are (the beginning of) a UTF-8 stream: it is
\* waiting in recv, has answered once for every complete line of the stream
\* that is not blank, and its buffer is the stream's unterminated rest
FramedAsStream ==
    (/\ peer = "open" /\ srv \in {"recv", "crashed"}
     /\ StreamText(rx).ok) =>
       /\ srv = "recv"
       /\ Len(out) = RequestLines(StreamText(rx).text)
       /\ buffer = AfterLastNewline(StreamText(rx).text)

\* C21 as stated: what run_server dispatches depends on the bytes of the
\* connection's stream only, not on how recv splits them: after every step
\* the requests answered are the complete non-blank lines of this
\* connection's stream and the buffer is its unterminated rest, and a new
\* connection starts with an empty buffer.
C21_FramingIndependentOfChunking ==
    [][FramedAsStream' /\ (Accept => buffer' = <<>>)]_vars
====
